---- MODULE Spec2Model ----
(***************************************************************************)
(* Model of scorm_generator.py: the Streamlit form that validates a course *)
(* and assembles a SCORM 1.2 package, and the two scripts the package      *)
(* carries: the SCORM API shim (scormapi.js) and the launcher page's timer *)
(* logic (index.html), run against a host LMS that stores what it is given.*)
(*                                                                         *)
(* Texts are sequences of one-character strings, so that trimming, prefix  *)
(* tests, time formatting and time parsing are computed character by       *)
(* character as the code computes them.  The empty text is <<>>.           *)
(***************************************************************************)
EXTENDS Integers, Sequences, FiniteSets, TLC

VARIABLES
    \* ---- host environment of the launcher page
    windows,            \* frame/opener hierarchy and which windows expose API
    initResult,         \* what the host's LMSInitialize("") returns
    lms,                \* the LMS data model: element name -> stored value
    lmsState,           \* "idle" | "running" | "finished" (LMS side of the session)
    \* ---- scormapi.js
    API,                \* SCORM.API: window whose API object was found, or Null
    isInitialized,      \* SCORM.isInitialized
    \* ---- index.html script
    require_min_time,   \* generate_html's parameter: a gate is compiled in
    min_time_minutes,   \* generate_html's parameter
    expected_duration,  \* generate_html's parameter, minutes
    sessionSeconds,
    totalSeconds,
    isTimerRunning,
    timerInterval,      \* "null" | "live" | "cleared": the handle last stored
    activeIntervals,    \* number of setInterval timers not yet cleared
    timerIndicator,     \* className of #timerIndicator
    statusValue,        \* textContent of #statusValue
    statusCompleted,    \* #statusValue has class "completed"
    display,            \* text of #sessionTime and #totalTime, width of #progressBar
    courseOpened,       \* #courseOpened has class "show" (and #initialState "hide")
    courseWindow,       \* "null" | "open" | "closed": the window.open handle
    phase,              \* "loading" | "loaded" | "ready" | "unloading" | "unloaded"
    \* ---- observation
    alertRemaining,     \* seconds the last handler's minimum-time alert showed, or -1
    finishCalls,        \* number of LMSFinish calls over the page lifetime
    lateCalls,          \* an LMS API call was made after LMSFinish
    statusAtLoad,       \* lesson_status the LMS held when the page loaded
    initAtUnload,       \* SCORM.isInitialized when beforeunload was dispatched
    \* ---- Streamlit form
    course_title,
    course_url,
    errors,             \* messages shown by st.error, in order
    zip_data,           \* <<>> or <<archive>>: what create_scorm_package returned
    filename,           \* file_name of the download button, <<>> when none
    \* ---- one function called on its own
    call,               \* name of the function called, "none" when there is no such call
    arg,                \* the argument it is called with
    ret,                \* <<>> until it returns, then the values returned, in order
    locals              \* its local variables where it is run step by step, else <<>>

pageVars == <<windows, initResult, lms, lmsState, API, isInitialized,
              require_min_time, min_time_minutes, expected_duration,
              sessionSeconds, totalSeconds,
              isTimerRunning, timerInterval, activeIntervals, timerIndicator,
              statusValue, statusCompleted, display, courseOpened, courseWindow, phase,
              alertRemaining, finishCalls, lateCalls, statusAtLoad, initAtUnload>>

formVars == <<course_title, course_url, errors, zip_data, filename>>

callVars == <<call, arg, ret, locals>>

vars == <<pageVars, formVars, callVars>>

Null == -1

\* ---- bounds of the model
MaxSession == 31        \* ticks modelled per page lifetime
MaxNameLen == 3         \* length of the short names given to sanitize_filename
MaxSeconds == 125       \* every number of seconds up to it is formatted
MaxWindows == 3         \* windows of the small hierarchies findAPI is run in

(***************************************************************************)
(* Text helpers                                                            *)
(***************************************************************************)
DigitChars == <<"0", "1", "2", "3", "4", "5", "6", "7", "8", "9">>

IsDigit(c) == \E i \in 1..10 : DigitChars[i] = c

DigitValue(c) == (CHOOSE i \in 1..10 : DigitChars[i] = c) - 1

RECURSIVE ToDigits(_)
\* String(n) for a non-negative integer
ToDigits(n) ==
    IF n < 10 THEN <<DigitChars[n + 1]>>
    ELSE Append(ToDigits(n \div 10), DigitChars[(n % 10) + 1])

RECURSIVE padStart(_, _, _)
padStart(s, targetLength, ch) ==
    IF Len(s) >= targetLength THEN s ELSE padStart(<<ch>> \o s, targetLength, ch)

RECURSIVE split(_, _)
\* s.split(sep): the parts between separators, in order
split(s, sep) ==
    IF \A i \in 1..Len(s) : s[i] # sep THEN <<s>>
    ELSE LET k == CHOOSE i \in 1..Len(s) :
                      s[i] = sep /\ \A j \in 1..(i - 1) : s[j] # sep
         IN <<SubSeq(s, 1, k - 1)>> \o split(SubSeq(s, k + 1, Len(s)), sep)

RECURSIVE LeadingDigits(_)
LeadingDigits(s) ==
    IF s = <<>> \/ ~IsDigit(s[1]) THEN <<>>
    ELSE <<s[1]>> \o LeadingDigits(Tail(s))

RECURSIVE DigitsValue(_)
DigitsValue(d) ==
    IF d = <<>> THEN 0
    ELSE DigitsValue(SubSeq(d, 1, Len(d) - 1)) * 10 + DigitValue(d[Len(d)])

\* parseInt(s, 10) || 0 : the leading decimal digits, NaN (hence 0) without any
parseIntOr0(s) == DigitsValue(LeadingDigits(s))

\* Math.floor(parseFloat(s) || 0) for unsigned text: the integer part
floorParseFloatOr0(s) == DigitsValue(LeadingDigits(s))

formatTime(seconds) ==
    LET hrs == seconds \div 3600
        mins == (seconds % 3600) \div 60
        secs == seconds % 60
    IN padStart(ToDigits(hrs), 2, "0") \o <<":">> \o
       padStart(ToDigits(mins), 2, "0") \o <<":">> \o
       padStart(ToDigits(secs), 2, "0")

\* variant: the minutes field is not reduced modulo the hour
formatScormTime_TotalMinutes(seconds) ==
    LET hrs == seconds \div 3600
        mins == seconds \div 60
        secs == seconds % 60
    IN padStart(ToDigits(hrs), 4, "0") \o <<":">> \o
       padStart(ToDigits(mins), 2, "0") \o <<":">> \o
       padStart(ToDigits(secs), 2, "0") \o <<".", "0", "0">>

formatScormTime(seconds) ==
    LET hrs == seconds \div 3600
        mins == (seconds % 3600) \div 60
        secs == seconds % 60
    IN padStart(ToDigits(hrs), 4, "0") \o <<":">> \o
       padStart(ToDigits(mins), 2, "0") \o <<":">> \o
       padStart(ToDigits(secs), 2, "0") \o <<".", "0", "0">>

parseScormTime(timeStr) ==
    IF timeStr = <<>> THEN 0
    ELSE LET parts == split(timeStr, ":")
         IN IF Len(parts) >= 3
            THEN parseIntOr0(parts[1]) * 3600 + parseIntOr0(parts[2]) * 60
                 + floorParseFloatOr0(parts[3])
            ELSE 0

(***************************************************************************)
(* The handlers of one page run to completion one at a time.  A handler is *)
(* modelled as a function on the "world" w: a record of everything the     *)
(* scripts and the LMS hold, threaded through the calls in source order.   *)
(* Besides the state it carries what the handler did: calls, the LMS API   *)
(* calls it made, in order, and result, the value it returned or the       *)
(* branch it ended in.                                                     *)
(***************************************************************************)
World ==
    [lms |-> lms, lmsState |-> lmsState, API |-> API,
     isInitialized |-> isInitialized,
     sessionSeconds |-> sessionSeconds, totalSeconds |-> totalSeconds,
     isTimerRunning |-> isTimerRunning, timerInterval |-> timerInterval,
     activeIntervals |-> activeIntervals, timerIndicator |-> timerIndicator,
     statusValue |-> statusValue, statusCompleted |-> statusCompleted,
     display |-> display, courseOpened |-> courseOpened,
     courseWindow |-> courseWindow,
     calls |-> <<>>, alertRemaining |-> -1,
     finishCalls |-> finishCalls, lateCalls |-> lateCalls,
     result |-> "done"]

\* a handler ran and left the world w
Becomes(w) ==
    /\ lms' = w.lms
    /\ lmsState' = w.lmsState
    /\ API' = w.API
    /\ isInitialized' = w.isInitialized
    /\ sessionSeconds' = w.sessionSeconds
    /\ totalSeconds' = w.totalSeconds
    /\ isTimerRunning' = w.isTimerRunning
    /\ timerInterval' = w.timerInterval
    /\ activeIntervals' = w.activeIntervals
    /\ timerIndicator' = w.timerIndicator
    /\ statusValue' = w.statusValue
    /\ statusCompleted' = w.statusCompleted
    /\ display' = w.display
    /\ courseOpened' = w.courseOpened
    /\ courseWindow' = w.courseWindow
    /\ alertRemaining' = w.alertRemaining
    /\ finishCalls' = w.finishCalls
    /\ lateCalls' = w.lateCalls

(***************************************************************************)
(* The host LMS: the SCORM 1.2 API object the shim calls.  It stores what  *)
(* LMSSetValue gives it while its session is running and returns it from   *)
(* LMSGetValue.                                                            *)
(***************************************************************************)
\* every call is logged as <<operation, element, value>>
Called(w, op, element, value) ==
    [w EXCEPT !.calls = Append(@, <<op, element, value>>),
              !.lateCalls = @ \/ (w.lmsState = "finished")]

LMSInitialize(w) ==
    [Called(w, "LMSInitialize", "", <<>>) EXCEPT
        !.lmsState = IF initResult \in {"str_true", "bool_true"} /\ w.lmsState = "idle"
                     THEN "running" ELSE @]

LMSSetValue(w, element, value) ==
    [Called(w, "LMSSetValue", element, value) EXCEPT
        !.lms = IF w.lmsState = "running" THEN [@ EXCEPT ![element] = value] ELSE @]

LMSCommit(w) == Called(w, "LMSCommit", "", <<>>)

LMSFinish(w) ==
    [Called(w, "LMSFinish", "", <<>>) EXCEPT
        !.lmsState = IF @ = "running" THEN "finished" ELSE @,
        !.finishCalls = @ + 1]

LMSGetValue(w, element) == w.lms[element]

\* a one-word text such as a lesson status; the empty text is <<>>
Text(word) == <<word>>

(***************************************************************************)
(* scormapi.js                                                             *)
(***************************************************************************)
maxAttempts == 500

\* variant: the loop does not count its attempts
whileCondition_Unbounded(win, attempts) ==
    /\ win \notin windows.api
    /\ windows.parent[win] # Null
    /\ windows.parent[win] # win

\* the condition of the while loop of findAPI
whileCondition(win, attempts) ==
    /\ win \notin windows.api
    /\ windows.parent[win] # Null
    /\ windows.parent[win] # win
    /\ attempts < maxAttempts

RECURSIVE ascend(_, _)
\* the while loop of findAPI: the window where the ascent stops
ascend(win, attempts) ==
    IF whileCondition(win, attempts)
    THEN ascend(windows.parent[win], attempts + 1)
    ELSE win

RECURSIVE findAPI(_)
findAPI(start) ==
    LET win == ascend(start, 0)
    IN IF win \in windows.api THEN win
       ELSE IF windows.opener[win] # Null /\ windows.opener[win] \in windows.api
            THEN windows.opener[win]
       ELSE IF windows.opener[win] # Null THEN findAPI(windows.opener[win])
       ELSE Null

\* variant: the guard tests the API object only
Guard_ApiOnly(w) == w.API # Null

\* the test "this.isInitialized && this.API" every shim operation starts with
Guard(w) == w.isInitialized /\ w.API # Null

setStatus(w, status) ==
    IF Guard(w)
    THEN LMSCommit(LMSSetValue(w, "cmi.core.lesson_status", status))
    ELSE w

setScore(w, score) ==
    IF Guard(w)
    THEN LMSCommit(
           LMSSetValue(
             LMSSetValue(
               LMSSetValue(w, "cmi.core.score.raw", <<score>>),
               "cmi.core.score.min", <<"0">>),
             "cmi.core.score.max", <<"1", "0", "0">>))
    ELSE w

\* variant: only the text "true" counts as success
init_TextOnly(w) ==
    LET w1 == [w EXCEPT !.API = findAPI(0)]
    IN IF w1.API # Null
       THEN LET w2 == LMSInitialize(w1)
            IN IF initResult = "str_true"
               THEN [setStatus([w2 EXCEPT !.isInitialized = TRUE], Text("incomplete"))
                        EXCEPT !.result = "true"]
               ELSE [w2 EXCEPT !.result = "false"]
       ELSE [w1 EXCEPT !.result = "false"]

init(w) ==
    LET w1 == [w EXCEPT !.API = findAPI(0)]
    IN IF w1.API # Null
       THEN LET w2 == LMSInitialize(w1)
            IN IF initResult = "str_true" \/ initResult = "bool_true"
               THEN [setStatus([w2 EXCEPT !.isInitialized = TRUE], Text("incomplete"))
                        EXCEPT !.result = "true"]
               ELSE [w2 EXCEPT !.result = "false"]
       ELSE [w1 EXCEPT !.result = "false"]

\* variant: the status is set but no score
complete_NoScore(w) == setStatus(w, Text("completed"))

complete(w) == setScore(setStatus(w, Text("completed")), 100)

pass(w) == setScore(setStatus(w, Text("passed")), 100)

\* variant: the initialized flag is left set
finish_KeepsFlag(w) ==
    IF Guard(w)
    THEN LMSFinish(LMSCommit(w))
    ELSE w

finish(w) ==
    IF Guard(w)
    THEN [LMSFinish(LMSCommit(w)) EXCEPT !.isInitialized = FALSE]
    ELSE w

\* the value SCORM.getValue returns
getValue(w, element) ==
    IF Guard(w) THEN LMSGetValue(w, element) ELSE <<>>

\* the world after SCORM.getValue: the read is one call on the API object
afterGetValue(w, element) ==
    IF Guard(w) THEN Called(w, "LMSGetValue", element, <<>>) ELSE w

setValue(w, element, value) ==
    IF Guard(w)
    THEN LMSCommit(LMSSetValue(w, element, value))
    ELSE w

(***************************************************************************)
(* index.html: the launcher page's script                                  *)
(***************************************************************************)
MIN_TIME_REQUIRED == min_time_minutes * 60

\* JSON.stringify({totalTime: ..., lastAccess: ...}): a JSON text is modelled
\* as one record saying whether JSON.parse accepts it and what totalTime it
\* carries (0 when the field is absent); lastAccess is never read back
JSONstringify(total) == <<[parses |-> TRUE, totalTime |-> total]>>

EXPECTED_DURATION == expected_duration * 60

\* Math.min((totalSeconds / EXPECTED_DURATION) * 100, 100) as the fraction
\* <<numerator, denominator>>, so that no rounding is assumed
\* variant: no Math.min
progressOf_NoClamp(total) == <<total * 100, EXPECTED_DURATION>>

progressOf(total) ==
    IF total * 100 < 100 * EXPECTED_DURATION
    THEN <<total * 100, EXPECTED_DURATION>>
    ELSE <<100, 1>>

updateTimerDisplay(w) ==
    [w EXCEPT !.display = [sessionTime |-> formatTime(w.sessionSeconds),
                           totalTime |-> formatTime(w.totalSeconds),
                           progress |-> progressOf(w.totalSeconds)]]

updateStatus(w, status, isCompleted) ==
    [w EXCEPT !.statusValue = status,
              !.statusCompleted = @ \/ isCompleted]

commitTimeToScorm(w) ==
    IF w.isInitialized
    THEN setValue(
           setValue(w, "cmi.core.session_time", formatScormTime(w.sessionSeconds)),
           "cmi.suspend_data", JSONstringify(w.totalSeconds))
    ELSE w

\* variant: no test of isTimerRunning
startTimer_NoGuard(w) ==
    [w EXCEPT !.isTimerRunning = TRUE,
              !.timerIndicator = "timer-active",
              !.timerInterval = "live",
              !.activeIntervals = @ + 1]

startTimer(w) ==
    IF w.isTimerRunning THEN w
    ELSE [w EXCEPT !.isTimerRunning = TRUE,
                   !.timerIndicator = "timer-active",
                   !.timerInterval = "live",
                   !.activeIntervals = @ + 1]

pauseTimer(w) ==
    IF ~w.isTimerRunning THEN w
    ELSE commitTimeToScorm(
           [w EXCEPT !.isTimerRunning = FALSE,
                     !.activeIntervals = IF w.timerInterval = "live" THEN @ - 1 ELSE @,
                     !.timerInterval = IF @ = "live" THEN "cleared" ELSE @,
                     !.timerIndicator = "timer-paused"])

\* variant: the callback never commits
tick_NoCommit(w) ==
    updateTimerDisplay([w EXCEPT !.sessionSeconds = @ + 1, !.totalSeconds = @ + 1])

\* the callback startTimer hands to setInterval
tick(w) ==
    LET w1 == updateTimerDisplay(
                [w EXCEPT !.sessionSeconds = @ + 1, !.totalSeconds = @ + 1])
    IN IF w1.sessionSeconds % 30 = 0 THEN commitTimeToScorm(w1) ELSE w1

\* variant: cmi.core.total_time is added to the suspend-data total
loadTimeFromScorm_Sum(w) ==
    IF w.isInitialized
    THEN LET suspendData == getValue(w, "cmi.suspend_data")
             w1 == afterGetValue(w, "cmi.suspend_data")
             w2 == IF /\ suspendData # <<>>
                      /\ suspendData[1].parses
                      /\ suspendData[1].totalTime # 0
                   THEN updateTimerDisplay(
                          [w1 EXCEPT !.totalSeconds = suspendData[1].totalTime])
                   ELSE w1
             totalTimeStr == getValue(w2, "cmi.core.total_time")
             w3 == afterGetValue(w2, "cmi.core.total_time")
         IN updateTimerDisplay([w3 EXCEPT !.totalSeconds = @ + parseScormTime(totalTimeStr)])
    ELSE w

loadTimeFromScorm(w) ==
    IF w.isInitialized
    THEN LET suspendData == getValue(w, "cmi.suspend_data")
             w1 == afterGetValue(w, "cmi.suspend_data")
             w2 == IF /\ suspendData # <<>>
                      /\ suspendData[1].parses
                      /\ suspendData[1].totalTime # 0
                   THEN updateTimerDisplay(
                          [w1 EXCEPT !.totalSeconds = suspendData[1].totalTime])
                   ELSE w1
             totalTimeStr == getValue(w2, "cmi.core.total_time")
             w3 == afterGetValue(w2, "cmi.core.total_time")
             prevTotal == parseScormTime(totalTimeStr)
         IN IF totalTimeStr # <<>> /\ prevTotal > w3.totalSeconds
            THEN updateTimerDisplay([w3 EXCEPT !.totalSeconds = prevTotal])
            ELSE w3
    ELSE w

\* window.open is taken to return a handle
launchCourse(w) ==
    startTimer(
      setStatus(
        updateStatus(
          [w EXCEPT !.courseWindow = "open", !.courseOpened = TRUE],
          "In Progress", FALSE),
        Text("incomplete")))

\* variant: the comparison is <= instead of <
minTimeCheck_Inclusive(w) == require_min_time /\ w.totalSeconds <= MIN_TIME_REQUIRED

\* the check generate_html compiles into markComplete when require_min_time
minTimeCheck(w) == require_min_time /\ w.totalSeconds < MIN_TIME_REQUIRED

markComplete(w, confirmed) ==
    IF minTimeCheck(w)
    THEN [w EXCEPT !.alertRemaining = MIN_TIME_REQUIRED - w.totalSeconds,
                   !.result = "blocked"]
    ELSE IF confirmed
    THEN [updateStatus(complete(commitTimeToScorm(pauseTimer(w))), "Completed", TRUE)
             EXCEPT !.result = "completed"]
    ELSE [w EXCEPT !.result = "declined"]

\* variant: the shim session is terminated before the time is committed
exitCourse_FinishFirst(w, confirmed, closed) ==
    IF w.statusValue # "Completed" /\ ~confirmed
    THEN [w EXCEPT !.result = "declined"]
    ELSE LET w1 == finish(w)
             w2 == commitTimeToScorm(pauseTimer(w1))
         IN IF w2.courseWindow = "open" /\ ~closed
            THEN [w2 EXCEPT !.courseWindow = "closed", !.result = "closedCourse"]
            ELSE [w2 EXCEPT !.courseWindow = IF @ = "open" THEN "closed" ELSE @,
                            !.result = "exited"]

exitCourse(w, confirmed, closed) ==
    IF w.statusValue # "Completed" /\ ~confirmed
    THEN [w EXCEPT !.result = "declined"]
    ELSE LET w1 == commitTimeToScorm(pauseTimer(w))
             w2 == IF w1.courseWindow = "open" /\ ~closed
                   THEN [w1 EXCEPT !.courseWindow = "closed", !.result = "closedCourse"]
                   ELSE [w1 EXCEPT !.courseWindow = IF @ = "open" THEN "closed" ELSE @,
                                   !.result = "exited"]
         IN finish(w2)

\* variant: a hidden tab pauses the timer
visibilitychange_PauseHidden(w, hidden) ==
    IF hidden THEN pauseTimer(w)
    ELSE IF w.courseOpened /\ ~w.isTimerRunning
    THEN startTimer(w)
    ELSE w

visibilitychange(w, hidden) ==
    IF ~hidden /\ w.courseOpened /\ ~w.isTimerRunning
    THEN startTimer(w)
    ELSE w

\* the callback the load listener schedules 500 ms after load
restore(w) ==
    updateTimerDisplay(
      IF w.isInitialized
      THEN LET w1 == loadTimeFromScorm(w)
               prevStatus == getValue(w1, "cmi.core.lesson_status")
               w2 == afterGetValue(w1, "cmi.core.lesson_status")
           IN IF prevStatus = Text("completed") \/ prevStatus = Text("passed")
              THEN [updateStatus(w2, "Completed", TRUE) EXCEPT !.courseOpened = TRUE]
              ELSE IF prevStatus = Text("incomplete")
              THEN startTimer(
                     [updateStatus(w2, "In Progress", FALSE) EXCEPT !.courseOpened = TRUE])
              ELSE w2
      ELSE w)

\* beforeunload: window.onbeforeunload (scormapi.js, registered first because
\* the script is in <head>), then the launcher's listener
beforeunload(w) == commitTimeToScorm(pauseTimer(finish(w)))

\* unload: window.onunload
unload(w) == finish(w)

(***************************************************************************)
(* scorm_generator.py: sanitizer, package assembler, form                  *)
(***************************************************************************)
Whitespace == {" ", "\t", "\n"}

\* the word characters (\w) among the characters the modelled texts use;
\* "@", ":", "/", "." and "®" are the ones that are neither \w nor \s
WordChars ==
    {"D", "e", "m", "o", "A", "b", "x", "h", "t", "p", "s", "f", "1", "_",
     "S", "l", "i", "n", "g", "M", "a"}

IsWord(c) == c \in WordChars

RECURSIVE lstrip(_)
lstrip(s) == IF s # <<>> /\ s[1] \in Whitespace THEN lstrip(Tail(s)) ELSE s

RECURSIVE rstrip(_)
rstrip(s) ==
    IF s # <<>> /\ s[Len(s)] \in Whitespace THEN rstrip(SubSeq(s, 1, Len(s) - 1)) ELSE s

\* str.strip()
strip(s) == rstrip(lstrip(s))

\* str.startswith(prefix)
startswith(s, prefix) == Len(s) >= Len(prefix) /\ SubSeq(s, 1, Len(prefix)) = prefix

RECURSIVE removeSpecial_First(_)
\* variant: only the first special character is removed (count=1)
removeSpecial_First(s) ==
    IF s = <<>> THEN <<>>
    ELSE IF IsWord(s[1]) \/ s[1] \in Whitespace \/ s[1] = "-"
         THEN <<s[1]>> \o removeSpecial_First(Tail(s))
         ELSE Tail(s)

RECURSIVE removeSpecial(_)
\* re.sub(r'[^\w\s-]', '', name)
removeSpecial(s) ==
    IF s = <<>> THEN <<>>
    ELSE IF IsWord(s[1]) \/ s[1] \in Whitespace \/ s[1] = "-"
         THEN <<s[1]>> \o removeSpecial(Tail(s))
         ELSE removeSpecial(Tail(s))

RECURSIVE collapseSpaces_Each(_)
\* variant: every whitespace character becomes an underscore (r'\s')
collapseSpaces_Each(s) ==
    IF s = <<>> THEN <<>>
    ELSE IF s[1] \in Whitespace
         THEN <<"_">> \o collapseSpaces_Each(Tail(s))
         ELSE <<s[1]>> \o collapseSpaces_Each(Tail(s))

RECURSIVE collapseSpaces(_)
\* re.sub(r'[\s]+', '_', safe)
collapseSpaces(s) ==
    IF s = <<>> THEN <<>>
    ELSE IF s[1] \in Whitespace
         THEN <<"_">> \o collapseSpaces(lstrip(s))
         ELSE <<s[1]>> \o collapseSpaces(Tail(s))

FilenameLimit == 50

sanitize_filename(name) ==
    LET safe == collapseSpaces(removeSpecial(name))
    IN SubSeq(safe, 1, IF Len(safe) < FilenameLimit THEN Len(safe) ELSE FilenameLimit)

HexLower == <<"0", "1", "2", "3", "4", "5", "6", "7", "8", "9", "a", "b", "c", "d", "e", "f">>

HexUpper == <<"0", "1", "2", "3", "4", "5", "6", "7", "8", "9", "A", "B", "C", "D", "E", "F">>

\* the value of one hexadecimal digit, in either case
HexDigitValue(c) == (CHOOSE i \in 1..16 : HexLower[i] = c \/ HexUpper[i] = c) - 1

RECURSIVE int16(_)
\* int(text, 16) for a text of hexadecimal digits
int16(text) ==
    IF text = <<>> THEN 0
    ELSE int16(SubSeq(text, 1, Len(text) - 1)) * 16 + HexDigitValue(text[Len(text)])

RECURSIVE ToHex(_)
\* format(n, 'x') for a non-negative integer
ToHex(n) ==
    IF n < 16 THEN <<HexLower[n + 1]>>
    ELSE Append(ToHex(n \div 16), HexLower[(n % 16) + 1])

\* variant: no minimum width (':x')
format02x_NoPad(n) == ToHex(n)

\* format(n, '02x')
format02x(n) == padStart(ToHex(n), 2, "0")

RECURSIVE lstripChar(_, _)
\* str.lstrip(ch)
lstripChar(text, ch) ==
    IF text # <<>> /\ text[1] = ch THEN lstripChar(Tail(text), ch) ELSE text

max(a, b) == IF a >= b THEN a ELSE b

\* the hover shade generate_html derives from primary_color
darker(primary_color) ==
    LET hex_color == lstripChar(primary_color, "#")
        r == int16(SubSeq(hex_color, 1, 2))
        g == int16(SubSeq(hex_color, 3, 4))
        b == int16(SubSeq(hex_color, 5, 6))
    IN <<"#">> \o format02x(max(0, r - 40)) \o format02x(max(0, g - 40))
              \o format02x(max(0, b - 40))

\* variant: the shim is written under a directory of the archive
create_scorm_package_Nested(title, url) ==
    LET course_id == sanitize_filename(title)
    IN [entries |-> <<"imsmanifest.xml", "js/scormapi.js", "index.html">>,
        identifier |-> course_id,
        course_title |-> title,
        course_url |-> url]

\* the archive create_scorm_package returns: the entries written, in order,
\* and the values interpolated into them
create_scorm_package(title, url) ==
    LET course_id == sanitize_filename(title)
    IN [entries |-> <<"imsmanifest.xml", "scormapi.js", "index.html">>,
        identifier |-> course_id,
        course_title |-> title,
        course_url |-> url]

http == <<"h", "t", "t", "p", ":", "/", "/">>

https == <<"h", "t", "t", "p", "s", ":", "/", "/">>

\* variant: the URL rules are skipped once the title rule has failed
validate_ShortCircuit(title, url) ==
    IF strip(title) = <<>> THEN <<"Course title is required">>
    ELSE IF strip(url) = <<>> THEN <<"Course URL is required">>
    ELSE IF ~(startswith(url, http) \/ startswith(url, https))
         THEN <<"Course URL must start with http:// or https://">>
         ELSE <<>>

\* variant: the scheme rule is left out
validate_NoScheme(title, url) ==
    (IF strip(title) = <<>> THEN <<"Course title is required">> ELSE <<>>)
    \o (IF strip(url) = <<>> THEN <<"Course URL is required">> ELSE <<>>)

\* the validation of the Generate button handler: the messages, in order
validate(title, url) ==
    (IF strip(title) = <<>> THEN <<"Course title is required">> ELSE <<>>)
    \o (IF strip(url) = <<>> THEN <<"Course URL is required">>
        ELSE IF ~(startswith(url, http) \/ startswith(url, https))
             THEN <<"Course URL must start with http:// or https://">>
             ELSE <<>>)

(***************************************************************************)
(* Environments and inputs                                                 *)
(***************************************************************************)
\* launcher (window 0) framed by the LMS window, which exposes API
Framed == [parent |-> (0 :> 1 @@ 1 :> 1), opener |-> (0 :> Null @@ 1 :> Null), api |-> {1}]

\* launcher opened as a popup by a frame of the LMS window
Popup ==
    [parent |-> (0 :> 0 @@ 1 :> 2 @@ 2 :> 2),
     opener |-> (0 :> 1 @@ 1 :> Null @@ 2 :> Null),
     api |-> {2}]

\* launcher opened outside any LMS
Bare == [parent |-> (0 :> 0), opener |-> (0 :> Null), api |-> {}]

DataModel(status, suspend, total) ==
    ("cmi.core.lesson_status" :> status) @@ ("cmi.core.score.raw" :> <<>>) @@
    ("cmi.core.score.min" :> <<>>) @@ ("cmi.core.score.max" :> <<>>) @@
    ("cmi.core.session_time" :> <<>>) @@ ("cmi.suspend_data" :> suspend) @@
    ("cmi.core.total_time" :> total)

Time50 == <<"0", "0", "0", "0", ":", "0", "0", ":", "5", "0", ".", "5", "0">>

\* what the LMS holds when the page is opened: a first attempt, and later
\* attempts with either source of total time the larger, missing or unreadable
Fresh == DataModel(Text("not attempted"), <<>>, <<>>)

LmsContents ==
    { Fresh,
      DataModel(Text("incomplete"), JSONstringify(40), Time50),
      DataModel(Text("incomplete"), JSONstringify(70), Time50),
      DataModel(Text("completed"), JSONstringify(70), Time50),
      DataModel(Text("passed"), JSONstringify(40), <<>>),
      DataModel(Text("incomplete"), <<[parses |-> FALSE, totalTime |-> 0]>>, Time50) }

Env(w, r, d, gate, minutes) ==
    [windows |-> w, initResult |-> r, lms |-> d,
     require_min_time |-> gate, min_time_minutes |-> minutes,
     expected_duration |-> 5]

\* the environments a page is run in: where the API is, what LMSInitialize
\* answers, what the LMS holds, and the gate the page was generated with
Environments ==
    { Env(Framed, "str_true", d, TRUE, 1) : d \in LmsContents }
    \cup { Env(Framed, "str_true", Fresh, FALSE, 0),
           Env(Framed, "str_true", DataModel(Text("incomplete"), JSONstringify(40), Time50),
               FALSE, 1),
           Env(Framed, "bool_true", DataModel(Text("incomplete"), JSONstringify(40), Time50),
               FALSE, 0),
           Env(Popup, "str_true", DataModel(Text("completed"), JSONstringify(70), Time50),
               FALSE, 0),
           Env(Framed, "str_false", Fresh, TRUE, 1),
           Env(Framed, "bool_false", Fresh, FALSE, 0),
           Env(Bare, "str_false", Fresh, TRUE, 1),
           Env(Bare, "str_false", Fresh, FALSE, 1),
           Env(Framed, "str_true", DataModel(Text("incomplete"), JSONstringify(295), <<>>),
               FALSE, 0) }
    \cup { [Env(Framed, "str_true", DataModel(Text("incomplete"), JSONstringify(total), <<>>),
                FALSE, 0) EXCEPT !.expected_duration = 60] : total \in {1800, 7200} }

Titles ==
    { <<>>, <<" ">>, <<"D", "e", "m", "o">>, <<" ", "D", "e", "m", "o", " ">>,
      <<"A", " ", " ", "b">>, <<"A", "@", "-", "b">>, <<"\t">> }

Urls ==
    { <<>>, <<" ">>, https \o <<"x">>, http \o <<"x">>,
      <<"f", "t", "p", ":", "/", "/", "x">>, <<"x", ".", "x">>,
      <<" ">> \o https \o <<"x">>, https \o <<"x", " ">> }

\* how a window came to be: a top-level window nobody opened, a frame of
\* its parent, or a top-level window opened by its opener
Links(n) ==
    [kind : {"top"}, by : {Null}] \cup [kind : {"frame", "popup"}, by : 0..(n - 1)]

\* the hierarchy in which every window is linked as link says
Hierarchy(link, api) ==
    [parent |-> [i \in DOMAIN link |-> IF link[i].kind = "frame" THEN link[i].by ELSE i],
     opener |-> [i \in DOMAIN link |-> IF link[i].kind = "popup" THEN link[i].by ELSE Null],
     api |-> api]

\* every hierarchy of n windows, numbered so that a window is created by a
\* later one, with the API object on any of them; the launcher is window 0
SmallHierarchies(n) ==
    { Hierarchy(link, api) :
        link \in { l \in [0..(n - 1) -> Links(n)] :
                      \A i \in 0..(n - 1) : l[i].kind = "top" \/ l[i].by > i },
        api \in SUBSET (0..(n - 1)) }

\* a chain of frames, window i framed by window i + 1 up to the top window
\* depth, the API object on the windows api
DeepChain(depth, api) ==
    [parent |-> [i \in 0..depth |-> IF i < depth THEN i + 1 ELSE i],
     opener |-> [i \in 0..depth |-> Null],
     api |-> api]

\* chains that end before, at and after the hop limit, with the API object
\* at the top, at the limit, or nowhere
DeepHierarchies ==
    { DeepChain(depth, api) :
        depth \in {maxAttempts - 1, maxAttempts, maxAttempts + 1},
        api \in {{}, {maxAttempts - 1}, {maxAttempts}, {maxAttempts + 1}} }

Hierarchies == SmallHierarchies(MaxWindows) \cup DeepHierarchies

RECURSIVE TextsUpTo(_, _)
\* the texts of at most n characters drawn from chars
TextsUpTo(chars, n) ==
    IF n = 0 THEN {<<>>}
    ELSE LET shorter == TextsUpTo(chars, n - 1)
         IN shorter \cup { Append(t, c) : t \in {x \in shorter : Len(x) = n - 1}, c \in chars }

Repeat(c, n) == [i \in 1..n |-> c]

\* a word character, the whitespace, special characters, hyphen and underscore
NameChars == {"A", " ", "\t", "@", "-", "_"}

SellingTheMessage ==
    <<"S", "e", "l", "l", "i", "n", "g", " ", "t", "h", "e", " ",
      "M", "e", "s", "s", "a", "g", "e", "®">>

\* the names sanitize_filename is called with: every short text, texts whose
\* length is around the limit with a short text before or after, a title
Names ==
    TextsUpTo(NameChars, MaxNameLen)
    \cup { Repeat("A", n) \o t : n \in (FilenameLimit - 2)..(FilenameLimit + 1),
                                 t \in TextsUpTo(NameChars, 2) }
    \cup { t \o Repeat("A", n) : n \in (FilenameLimit - 2)..(FilenameLimit + 1),
                                 t \in TextsUpTo(NameChars, 2) }
    \cup { SellingTheMessage }

\* two hexadecimal digits of n, written with the digits of the given case
hex2(n, digits) == <<digits[(n \div 16) + 1], digits[(n % 16) + 1]>>

\* channel values on both sides of 40 and at both ends
ChannelValues == {0, 16, 39, 40, 41, 46, 95, 234, 255}

\* the colors the color picker can hand to generate_html, in either case
Colors ==
    { <<"#">> \o hex2(r, digits) \o hex2(g, digits) \o hex2(b, digits) :
        r \in ChannelValues, g \in ChannelValues, b \in ChannelValues,
        digits \in {HexLower, HexUpper} }

\* the seconds formatScormTime is called with: every small number, and
\* numbers around the minute, hour, 100-hour and 10000-hour marks
Seconds ==
    0..MaxSeconds
    \cup {3599, 3600, 3601, 3661, 7325, 35999, 36000, 86399, 86400,
          359999, 360000, 35999999, 36000000, 36003661}

Time010101 == <<"0", "0", "0", "1", ":", "0", "1", ":", "0", "1", ".", "5", "0">>

\* the texts parseScormTime is called with: SCORM times with a fraction,
\* short hours, no text, fewer than three fields, no digits
TimeTexts ==
    { Time010101, Time50, <<>>,
      <<"1", ":", "0", "2", ":", "0", "3">>,
      <<"1", "2", ":", "3", "0">>,
      <<"a", ":", "b", ":", "x">> }

(***************************************************************************)
(* States                                                                  *)
(***************************************************************************)
\* the launcher page as parsed, before its load event, in environment e
PageInit(e) ==
    /\ windows = e.windows
    /\ initResult = e.initResult
    /\ lms = e.lms
    /\ lmsState = "idle"
    /\ API = Null
    /\ isInitialized = FALSE
    /\ require_min_time = e.require_min_time
    /\ min_time_minutes = e.min_time_minutes
    /\ expected_duration = e.expected_duration
    /\ sessionSeconds = 0
    /\ totalSeconds = 0
    /\ isTimerRunning = FALSE
    /\ timerInterval = "null"
    /\ activeIntervals = 0
    /\ timerIndicator = "timer-paused"
    /\ statusValue = "Not Started"
    /\ statusCompleted = FALSE
    /\ display = [sessionTime |-> formatTime(0), totalTime |-> formatTime(0),
                  progress |-> <<0, 1>>]
    /\ courseOpened = FALSE
    /\ courseWindow = "null"
    /\ phase = "loading"
    /\ alertRemaining = -1
    /\ finishCalls = 0
    /\ lateCalls = FALSE
    /\ statusAtLoad = <<>>
    /\ initAtUnload = FALSE

\* the form as first rendered
FormInit ==
    /\ course_title = <<>>
    /\ course_url = <<>>
    /\ errors = <<>>
    /\ zip_data = <<>>
    /\ filename = <<>>

\* no function is called on its own
NoCall ==
    /\ call = "none"
    /\ arg = <<>>
    /\ ret = <<>>
    /\ locals = <<>>

\* f is about to be called with an argument drawn from inputs
CallInit(f, inputs) ==
    /\ call = f
    /\ arg \in inputs
    /\ ret = <<>>
    /\ locals = <<>>

(***************************************************************************)
(* Launcher page events                                                    *)
(***************************************************************************)
\* The learner acts on a loaded page: the document waits for no resource but
\* scormapi.js in <head>, so its load event follows its parsing at once.
Interactive == phase \in {"loaded", "ready"}

\* load event: window.onload runs SCORM.init, the launcher's listener
\* schedules the restore callback
Load ==
    /\ phase = "loading"
    /\ Becomes(init(World))
    /\ statusAtLoad' = lms["cmi.core.lesson_status"]
    /\ phase' = "loaded"
    /\ UNCHANGED <<windows, initResult, require_min_time, min_time_minutes, expected_duration,
                   initAtUnload, formVars, callVars>>

Restore ==
    /\ phase = "loaded"
    /\ Becomes(restore(World))
    /\ phase' = "ready"
    /\ UNCHANGED <<windows, initResult, require_min_time, min_time_minutes, expected_duration,
                   statusAtLoad, initAtUnload, formVars, callVars>>

Handler(w) ==
    /\ Interactive
    /\ Becomes(w)
    /\ UNCHANGED <<windows, initResult, require_min_time, min_time_minutes, expected_duration,
                   phase, statusAtLoad, initAtUnload, formVars, callVars>>

\* Launch Course (initial panel) or Reopen Course (course-opened panel)
LaunchCourse == Handler(launchCourse(World))

MarkComplete ==
    /\ courseOpened
    /\ \E confirmed \in BOOLEAN : Handler(markComplete(World, confirmed))

ExitCourse ==
    /\ courseOpened
    /\ \E confirmed, closed \in BOOLEAN :
          Handler(exitCourse(World, confirmed, closed))

VisibilityChange ==
    \E hidden \in BOOLEAN : Handler(visibilitychange(World, hidden))

\* One interval callback fires.  The restore callback (500 ms, scheduled at
\* load) runs before the first callback of any interval (1000 ms, started
\* by a handler after load).
Tick ==
    /\ phase = "ready"
    /\ activeIntervals > 0
    /\ sessionSeconds < MaxSession
    /\ Handler(tick(World))

BeforeUnload ==
    /\ phase \in {"loading", "loaded", "ready"}
    /\ Becomes(beforeunload(World))
    /\ initAtUnload' = isInitialized
    /\ phase' = "unloading"
    /\ UNCHANGED <<windows, initResult, require_min_time, min_time_minutes, expected_duration,
                   statusAtLoad, formVars, callVars>>

Unload ==
    /\ phase = "unloading"
    /\ Becomes(unload(World))
    /\ phase' = "unloaded"
    /\ UNCHANGED <<windows, initResult, require_min_time, min_time_minutes, expected_duration,
                   statusAtLoad, initAtUnload, formVars, callVars>>

(***************************************************************************)
(* Form events                                                             *)
(***************************************************************************)
\* editing a field reruns the script without the button pressed
EditTitle ==
    \E t \in Titles :
        /\ course_title' = t
        /\ errors' = <<>> /\ zip_data' = <<>> /\ filename' = <<>>
        /\ UNCHANGED <<course_url, pageVars, callVars>>

EditUrl ==
    \E u \in Urls :
        /\ course_url' = u
        /\ errors' = <<>> /\ zip_data' = <<>> /\ filename' = <<>>
        /\ UNCHANGED <<course_title, pageVars, callVars>>

\* the Generate button handler
Generate ==
    /\ errors' = validate(course_title, course_url)
    /\ IF errors' # <<>>
       THEN zip_data' = <<>> /\ filename' = <<>>
       ELSE /\ zip_data' = <<create_scorm_package(strip(course_title), strip(course_url))>>
            /\ filename' = sanitize_filename(course_title)
                           \o <<"_", "S", "C", "O", "R", "M", ".", "z", "i", "p">>
    /\ UNCHANGED <<course_title, course_url, pageVars, callVars>>

(***************************************************************************)
(* Function calls                                                          *)
(***************************************************************************)
Returns(value) ==
    /\ ret' = Append(ret, value)
    /\ UNCHANGED <<call, arg, locals, pageVars, formVars>>

\* sanitize_filename(name) returns
Sanitize ==
    /\ call = "sanitize_filename"
    /\ ret = <<>>
    /\ Returns(sanitize_filename(arg))

\* sanitize_filename is called again, with what it returned
SanitizeAgain ==
    /\ call = "sanitize_filename"
    /\ Len(ret) = 1
    /\ Returns(sanitize_filename(ret[1]))

\* generate_html has computed darker
Darken ==
    /\ call = "darker"
    /\ ret = <<>>
    /\ Returns(darker(arg))

\* formatScormTime(seconds) returns
FormatScormTime ==
    /\ call = "formatScormTime"
    /\ ret = <<>>
    /\ Returns(formatScormTime(arg))

\* parseScormTime is called with what formatScormTime returned
ParseBack ==
    /\ call = "formatScormTime"
    /\ Len(ret) = 1
    /\ Returns(parseScormTime(ret[1]))

\* parseScormTime(timeStr) returns
ParseScormTime ==
    /\ call = "parseScormTime"
    /\ ret = <<>>
    /\ Returns(parseScormTime(arg))

\* one iteration of the while loop of findAPI
FindLoop ==
    /\ call = "findAPI"
    /\ ret = <<>>
    /\ whileCondition(locals.win, locals.attempts)
    /\ locals' = [win |-> windows.parent[locals.win], attempts |-> locals.attempts + 1]
    /\ UNCHANGED <<call, arg, ret, pageVars, formVars>>

\* findAPI returns: the API object of win, that of its opener, or null
FindReturn ==
    /\ call = "findAPI"
    /\ ret = <<>>
    /\ ~whileCondition(locals.win, locals.attempts)
    /\ LET win == locals.win
       IN \/ win \in windows.api /\ Returns(win)
          \/ /\ win \notin windows.api
             /\ windows.opener[win] # Null
             /\ windows.opener[win] \in windows.api
             /\ Returns(windows.opener[win])
          \/ /\ win \notin windows.api
             /\ windows.opener[win] = Null
             /\ Returns(Null)

\* return this.findAPI(win.opener): the call is replaced by one on the opener
FindRecurse ==
    /\ call = "findAPI"
    /\ ret = <<>>
    /\ ~whileCondition(locals.win, locals.attempts)
    /\ locals.win \notin windows.api
    /\ windows.opener[locals.win] # Null
    /\ windows.opener[locals.win] \notin windows.api
    /\ arg' = windows.opener[locals.win]
    /\ locals' = [win |-> windows.opener[locals.win], attempts |-> 0]
    /\ UNCHANGED <<call, ret, pageVars, formVars>>

(***************************************************************************)
(* Specifications                                                          *)
(***************************************************************************)
Init == FormInit /\ NoCall /\ \E e \in Environments : PageInit(e)

Next ==
    \/ Load
    \/ Restore
    \/ LaunchCourse
    \/ MarkComplete
    \/ ExitCourse
    \/ VisibilityChange
    \/ Tick
    \/ BeforeUnload
    \/ Unload

\* the launcher page over one page lifetime
Spec == Init /\ [][Next]_vars

FormStart ==
    /\ FormInit
    /\ NoCall
    /\ PageInit(Env(Bare, "str_false", Fresh, FALSE, 0))

FormNext == EditTitle \/ EditUrl \/ Generate

\* the generator form over one browser session
FormSpec == FormStart /\ [][FormNext]_vars

CallStart ==
    /\ FormInit
    /\ PageInit(Env(Bare, "str_false", Fresh, FALSE, 0))
    /\ \/ CallInit("sanitize_filename", Names)
       \/ CallInit("darker", Colors)
       \/ CallInit("formatScormTime", Seconds)
       \/ CallInit("parseScormTime", TimeTexts)

CallNext ==
    \/ Sanitize
    \/ SanitizeAgain
    \/ Darken
    \/ FormatScormTime
    \/ ParseBack
    \/ ParseScormTime

\* each function of the generator and of the launcher called on its own
CallSpec == CallStart /\ [][CallNext]_vars

\* SCORM.findAPI(window) is called in some hierarchy
FindStart ==
    /\ FormInit
    /\ \E h \in Hierarchies : PageInit(Env(h, "str_false", Fresh, FALSE, 0))
    /\ call = "findAPI"
    /\ arg = 0
    /\ ret = <<>>
    /\ locals = [win |-> 0, attempts |-> 0]

FindNext == FindLoop \/ FindReturn \/ FindRecurse

\* findAPI run step by step; a call that can take a step takes one
FindSpec == FindStart /\ [][FindNext]_vars /\ WF_vars(FindNext)

(***************************************************************************)
(* Properties                                                              *)
(***************************************************************************)
Max(a, b) == IF a > b THEN a ELSE b

Status == lms["cmi.core.lesson_status"]

\* seconds the LMS holds as session time
LmsSessionSeconds == parseScormTime(lms["cmi.core.session_time"])

\* totalTime the LMS holds in suspend data, 0 when there is none to read
SuspendTotal(d) ==
    IF d["cmi.suspend_data"] # <<>> /\ d["cmi.suspend_data"][1].parses
    THEN d["cmi.suspend_data"][1].totalTime
    ELSE 0

\* the world w holds the current time in the LMS
TimeCommitted(w) ==
    /\ w.lms["cmi.core.session_time"] = formatScormTime(w.sessionSeconds)
    /\ w.lms["cmi.suspend_data"] = JSONstringify(w.totalSeconds)

\* a configured minimum-time gate is unmet
GateUnmet == require_min_time /\ totalSeconds < min_time_minutes * 60

\* w is the current world but for what a handler reports
SameState(w) == [w EXCEPT !.calls = <<>>, !.alertRemaining = -1, !.result = "done"] = World

\* C1 (as claimed): once a page-unload event has been handled that found the
\* shim Initialized, the session time and the total time the LMS holds equal
\* the launcher's sessionSeconds and totalSeconds.
C1_UnloadCommitsCounters ==
    (phase \in {"unloading", "unloaded"} /\ initAtUnload) =>
        /\ LmsSessionSeconds = sessionSeconds
        /\ SuspendTotal(lms) = totalSeconds

\* C2 (as claimed): when the restore callback runs with the shim Initialized
\* and the LMS held completed or passed at load, it leaves the status
\* Completed with the course-opened panel shown and does not start the timer;
\* when the LMS held incomplete, it leaves In Progress with the timer running.
C2_RestoreFollowsLmsStatus ==
    (phase = "loaded" /\ isInitialized) =>
        LET w == restore(World)
        IN /\ statusAtLoad \in {Text("completed"), Text("passed")} =>
                /\ w.statusValue = "Completed"
                /\ w.courseOpened
                /\ w.isTimerRunning = isTimerRunning
           /\ statusAtLoad = Text("incomplete") =>
                /\ w.statusValue = "In Progress"
                /\ w.isTimerRunning

\* C3: markComplete is blocked exactly when a gate is configured and
\* totalSeconds < min_time_minutes * 60; a blocked attempt reports the
\* remaining time and changes nothing else; with the gate disabled nothing is
\* blocked whatever min_time_minutes is; a confirmed attempt that is not
\* blocked completes; and no step taken while a configured gate is unmet
\* turns the LMS lesson status into completed.
C3_WhenClickable ==
    (Interactive /\ courseOpened) =>
        \A confirmed \in BOOLEAN :
            LET w == markComplete(World, confirmed)
            IN /\ (w.result = "blocked") <=> GateUnmet
               /\ GateUnmet =>
                    /\ w.alertRemaining = min_time_minutes * 60 - totalSeconds
                    /\ SameState(w)
               /\ ~require_min_time => w.result # "blocked"
               /\ (~GateUnmet /\ confirmed) =>
                    w.result = "completed" /\ w.statusValue = "Completed"

C3_NoCompletionStep ==
    (GateUnmet /\ Status # Text("completed")) => Status' # Text("completed")

C3_MinimumTimeGate == [] C3_WhenClickable /\ [][C3_NoCompletionStep]_vars

C3_Witness ==
    /\ require_min_time
    /\ alertRemaining = 10
    /\ totalSeconds = 50
    /\ statusValue = "In Progress"

\* C4: when markComplete is not blocked and the learner confirms, the timer
\* is stopped and the status shown is Completed; if the shim is Initialized
\* the LMS then holds the current time, lesson_status completed, score.raw
\* 100, score.min "0" and score.max "100".  When the learner declines,
\* nothing changes.
C4_MarkComplete ==
    (Interactive /\ courseOpened /\ ~GateUnmet) =>
        LET w == markComplete(World, TRUE)
        IN /\ ~w.isTimerRunning
           /\ w.statusValue = "Completed"
           /\ isInitialized =>
                /\ TimeCommitted(w)
                /\ w.lms["cmi.core.lesson_status"] = Text("completed")
                /\ w.lms["cmi.core.score.raw"] = <<100>>
                /\ w.lms["cmi.core.score.min"] = <<"0">>
                /\ w.lms["cmi.core.score.max"] = <<"1", "0", "0">>
           /\ SameState(markComplete(World, FALSE))

C4_Witness ==
    /\ statusValue = "Completed"
    /\ isInitialized
    /\ ~isTimerRunning
    /\ sessionSeconds > 0
    /\ Status = Text("completed")
    /\ lms["cmi.core.score.raw"] = <<100>>
    /\ LmsSessionSeconds = sessionSeconds

\* C5: when loadTimeFromScorm runs with the shim Initialized, the restored
\* totalSeconds is the larger of the suspend-data totalTime and the seconds
\* cmi.core.total_time parses to, a missing source counting as 0.
C5_TotalTimeReconciliation ==
    (phase = "loaded" /\ isInitialized) =>
        loadTimeFromScorm(World).totalSeconds =
            Max(SuspendTotal(lms), parseScormTime(lms["cmi.core.total_time"]))

C5_Witness ==
    /\ phase = "ready"
    /\ isInitialized
    /\ SuspendTotal(lms) = 40
    /\ parseScormTime(lms["cmi.core.total_time"]) = 50
    /\ totalSeconds = 50

\* C6: while the shim is Initialized, a tick that makes sessionSeconds a
\* multiple of 30 writes the current time to the LMS, and whenever the timer
\* is running sessionSeconds is at most 29 ahead of the session time the LMS
\* holds.
C6_PeriodicCommit ==
    isInitialized =>
        /\ (phase = "ready" /\ activeIntervals > 0 /\ (sessionSeconds + 1) % 30 = 0) =>
                TimeCommitted(tick(World))
        /\ isTimerRunning =>
                /\ LmsSessionSeconds <= sessionSeconds
                /\ sessionSeconds - LmsSessionSeconds <= 29

C6_Witness ==
    /\ isInitialized
    /\ isTimerRunning
    /\ sessionSeconds = 30
    /\ LmsSessionSeconds = 30
    /\ SuspendTotal(lms) = totalSeconds

\* C7: whenever the shim is not Initialized, setStatus, setScore, setValue,
\* complete, pass and finish call nothing on the LMS API and change nothing,
\* getValue returns the empty text without a call, and the launcher still
\* starts its timer, counts and shows its status.
C7_ShimGuard ==
    ~isInitialized =>
        /\ LET ops == << setStatus(World, Text("completed")), setScore(World, 100),
                         setValue(World, "cmi.core.session_time", formatScormTime(1)),
                         complete(World), pass(World), finish(World),
                         afterGetValue(World, "cmi.core.lesson_status") >>
           IN \A i \in 1..Len(ops) : ops[i].calls = <<>> /\ ops[i] = World
        /\ \A element \in DOMAIN lms : getValue(World, element) = <<>>
        /\ Interactive =>
              /\ launchCourse(World).isTimerRunning
              /\ launchCourse(World).statusValue = "In Progress"
              /\ tick(World).sessionSeconds = sessionSeconds + 1
              /\ tick(World).totalSeconds = totalSeconds + 1
              /\ markComplete(World, TRUE).calls = <<>>

C7_Witness ==
    /\ phase = "ready"
    /\ ~isInitialized
    /\ API # Null
    /\ lmsState = "finished"
    /\ isTimerRunning
    /\ sessionSeconds > 0
    /\ LmsSessionSeconds < sessionSeconds

\* C8: SCORM.init returns true and sets isInitialized exactly when discovery
\* finds an API object and LMSInitialize("") answers true or "true"; it then
\* writes lesson_status incomplete and commits; otherwise isInitialized stays
\* false, nothing is written to the data model and init returns false.
C8_Initialize ==
    /\ isInitialized => (API # Null /\ initResult \in {"bool_true", "str_true"})
    /\ (phase = "loading") =>
        LET w == init(World)
            success == findAPI(0) # Null /\ initResult \in {"bool_true", "str_true"}
        IN /\ (w.result = "true") <=> success
           /\ w.isInitialized <=> success
           /\ success =>
                /\ w.calls = << <<"LMSInitialize", "", <<>> >>,
                                <<"LMSSetValue", "cmi.core.lesson_status", Text("incomplete")>>,
                                <<"LMSCommit", "", <<>> >> >>
                /\ w.lms["cmi.core.lesson_status"] = Text("incomplete")
           /\ ~success =>
                /\ w.result = "false"
                /\ w.lms = lms
                /\ \A i \in 1..Len(w.calls) : w.calls[i][1] = "LMSInitialize"

C8_Witness ==
    /\ phase = "loaded"
    /\ isInitialized
    /\ initResult = "bool_true"
    /\ Status = Text("incomplete")

\* C9: while Initialized, finish calls LMSCommit, then LMSFinish, and clears
\* the flag; over the page lifetime LMSFinish is called at most once and no
\* LMS API call is made after it.
C9_Finish ==
    /\ Guard(World) =>
          LET w == finish(World)
          IN /\ w.calls = << <<"LMSCommit", "", <<>> >>, <<"LMSFinish", "", <<>> >> >>
             /\ ~w.isInitialized
    /\ finishCalls <= 1
    /\ ~lateCalls

C9_Witness ==
    /\ phase = "unloaded"
    /\ finishCalls = 1
    /\ lmsState = "finished"
    /\ ~isInitialized
    /\ sessionSeconds > 0

\* the messages the rules call for: title empty after trimming; URL empty
\* after trimming; URL not empty after trimming whose text does not start
\* with http:// or https://
ViolatedRules(title, url) ==
    { r \in {1, 2, 3} :
        \/ r = 1 /\ strip(title) = <<>>
        \/ r = 2 /\ strip(url) = <<>>
        \/ r = 3 /\ strip(url) # <<>>
                 /\ \A scheme \in {http, https} :
                        \/ Len(url) < Len(scheme)
                        \/ \E i \in 1..Len(scheme) : url[i] # scheme[i] }

RuleMessage(r) ==
    CASE r = 1 -> "Course title is required"
      [] r = 2 -> "Course URL is required"
      [] r = 3 -> "Course URL must start with http:// or https://"

\* C10: the errors a submission reports are exactly one message per violated
\* rule, all together; whenever an error is reported no archive and no
\* download is produced, and an archive is produced only when no rule is
\* violated.
C10_ValidationReportsAll ==
    LET rules == ViolatedRules(course_title, course_url)
        reported == validate(course_title, course_url)
    IN /\ Len(reported) = Cardinality(rules)
       /\ \A r \in rules : \E i \in 1..Len(reported) : reported[i] = RuleMessage(r)
       /\ errors # <<>> => (errors = reported /\ zip_data = <<>> /\ filename = <<>>)
       /\ zip_data # <<>> => (rules = {} /\ errors = <<>>)

C10_Witness ==
    /\ strip(course_title) = <<>>
    /\ course_url = <<"f", "t", "p", ":", "/", "/", "x">>
    /\ Len(errors) = 2
    /\ zip_data = <<>>
    /\ filename = <<>>

\* the text s begins with the text prefix
BeginsWith(s, prefix) ==
    Len(s) >= Len(prefix) /\ \A i \in 1..Len(prefix) : s[i] = prefix[i]

HasScheme(url) == BeginsWith(url, http) \/ BeginsWith(url, https)

\* a submission has been handled: it reported errors or produced an archive
Submitted == errors # <<>> \/ zip_data # <<>>

\* C11: whenever create_scorm_package has been invoked, the title it received
\* is not empty and the url it received is not empty and begins with http://
\* or https://.
C11_AssemblerInputs ==
    zip_data # <<>> =>
        /\ zip_data[1].course_title # <<>>
        /\ zip_data[1].course_url # <<>>
        /\ HasScheme(zip_data[1].course_url)

C11_Witness ==
    /\ zip_data # <<>>
    /\ course_title = <<" ", "D", "e", "m", "o", " ">>
    /\ course_url = https \o <<"x", " ">>
    /\ zip_data[1].course_title = <<"D", "e", "m", "o">>
    /\ zip_data[1].course_url = https \o <<"x">>

\* C12 (as claimed): a handled submission passes validation exactly when the
\* title is not empty after trimming and the URL, after trimming, starts
\* with http:// or https://.
C12_ValidationJudgesTrimmed ==
    Submitted =>
        ((errors = <<>>) <=> (strip(course_title) # <<>> /\ HasScheme(strip(course_url))))

\* C13 (as claimed): for a submission that passed validation, the download
\* filename is the identifier written on the manifest root element followed
\* by _SCORM.zip.
C13_OneCourseIdentifier ==
    zip_data # <<>> =>
        filename = zip_data[1].identifier \o <<"_", "S", "C", "O", "R", "M", ".", "z", "i", "p">>

\* every character of s that keeps(c) holds for, in order
Keep(s, keeps(_)) == SelectSeq(s, keeps)

\* f with each whitespace run reduced to its first character, written "_"
OneUnderscorePerRun(f) ==
    LET first == SelectSeq([i \in 1..Len(f) |-> i],
                           LAMBDA i : f[i] \notin Whitespace \/ i = 1
                                      \/ f[i - 1] \notin Whitespace)
    IN [j \in 1..Len(first) |-> IF f[first[j]] \in Whitespace THEN "_" ELSE f[first[j]]]

FirstChars(s, n) == [i \in 1..(IF Len(s) < n THEN Len(s) ELSE n) |-> s[i]]

\* C14: sanitize_filename returns at most 50 characters, each a word
\* character or a hyphen and none a whitespace; the result is the input with
\* every character other than word characters, whitespace and hyphens
\* removed, then each maximal whitespace run replaced by one underscore, then
\* cut to the first 50 characters; "Selling the Message®" gives
\* "Selling_the_Message".
C14_SanitizerOutput ==
    (call = "sanitize_filename" /\ ret # <<>>) =>
        LET out == ret[1]
            kept == Keep(arg, LAMBDA c : c \in WordChars \cup Whitespace \cup {"-"})
        IN /\ Len(out) <= 50
           /\ \A i \in 1..Len(out) : out[i] \in WordChars \cup {"-"} /\ out[i] \notin Whitespace
           /\ out = FirstChars(OneUnderscorePerRun(kept), 50)
           /\ arg = SellingTheMessage =>
                out = <<"S", "e", "l", "l", "i", "n", "g", "_", "t", "h", "e", "_",
                        "M", "e", "s", "s", "a", "g", "e">>

C14_Witness ==
    /\ call = "sanitize_filename"
    /\ arg = <<"@", " ">> \o Repeat("A", 50)
    /\ ret # <<>>
    /\ ret[1] = <<"_">> \o Repeat("A", 49)

\* C15: sanitize_filename applied to its own result returns that result.
C15_SanitizerIdempotent ==
    (call = "sanitize_filename" /\ Len(ret) = 2) => ret[2] = ret[1]

C15_Witness ==
    /\ call = "sanitize_filename"
    /\ arg = Repeat("A", 49) \o <<"\t", " ">>
    /\ Len(ret) = 2
    /\ ret[1] = Repeat("A", 49) \o <<"_">>
    /\ ret[2] = ret[1]

\* C16: the archive create_scorm_package returns holds exactly three
\* entries, each once and at the archive root: imsmanifest.xml, scormapi.js
\* and index.html.
C16_ArchiveStructure ==
    zip_data # <<>> =>
        LET entries == zip_data[1].entries
        IN /\ Len(entries) = 3
           /\ {entries[i] : i \in 1..Len(entries)}
                = {"imsmanifest.xml", "scormapi.js", "index.html"}

C16_Witness ==
    /\ zip_data # <<>>
    /\ course_title = <<"A", "@", "-", "b">>
    /\ zip_data[1].identifier = <<"A", "-", "b">>
    /\ Len(zip_data[1].entries) = 3

\* the k-th channel of a color text "#rrggbb", k in 1..3
Channel(color, k) ==
    CHOOSE n \in 0..255 :
        \E digits \in {HexLower, HexUpper} : hex2(n, digits) = SubSeq(color, 2 * k, 2 * k + 1)

\* the shade has the channels of the color less 40, not below 0, each
\* written as two hexadecimal digits
DarkerBy40(color, shade) ==
    /\ Len(shade) = 7
    /\ shade[1] = "#"
    /\ \A k \in 1..3 :
          LET c == Channel(color, k)
              d == IF c - 40 > 0 THEN c - 40 ELSE 0
          IN d \in 0..255 /\ SubSeq(shade, 2 * k, 2 * k + 1) = hex2(d, HexLower)

Color5F2EEA == <<"#", "5", "F", "2", "E", "E", "A">>

Color101010 == <<"#", "1", "0", "1", "0", "1", "0">>

\* C17 (as claimed): the hover shade of a 6-hex-digit color has channels
\* max(0, c - 40), each in 0..255 and written as two hex digits; #5F2EEA
\* gives #3f0aca and #101010 gives #000000.
C17_DarkeningAsClaimed ==
    (call = "darker" /\ ret # <<>>) =>
        /\ DarkerBy40(arg, ret[1])
        /\ arg = Color5F2EEA => ret[1] = <<"#", "3", "f", "0", "a", "c", "a">>
        /\ arg = Color101010 => ret[1] = <<"#", "0", "0", "0", "0", "0", "0">>

\* C17 (amended): the hover shade of a 6-hex-digit color has channels
\* max(0, c - 40), each in 0..255 and written as two hex digits; #5F2EEA
\* (95, 46, 234) gives #3706c2 (55, 6, 194) and #101010 gives #000000.
C17_ColorDarkening ==
    (call = "darker" /\ ret # <<>>) =>
        /\ DarkerBy40(arg, ret[1])
        /\ arg = Color5F2EEA => ret[1] = <<"#", "3", "7", "0", "6", "c", "2">>
        /\ arg = Color101010 => ret[1] = <<"#", "0", "0", "0", "0", "0", "0">>

C17_Witness ==
    /\ call = "darker"
    /\ arg = Color5F2EEA
    /\ ret = << <<"#", "3", "7", "0", "6", "c", "2">> >>

\* the number two decimal digits stand for
TwoDigits(t, i) == DigitValue(t[i]) * 10 + DigitValue(t[i + 1])

\* t reads hours:MM:SS.00 for s seconds: hours of four digits, or more
\* when four cannot hold them, minutes and seconds of two digits in 00..59
IsScormTimeOf(t, s) ==
    LET n == Len(t)
    IN /\ n >= 13
       /\ SubSeq(t, n - 2, n) = <<".", "0", "0">>
       /\ t[n - 5] = ":" /\ t[n - 8] = ":"
       /\ \A i \in (1..(n - 9)) \cup {n - 7, n - 6, n - 4, n - 3} : IsDigit(t[i])
       /\ n > 13 => t[1] # "0"
       /\ TwoDigits(t, n - 7) \in 0..59
       /\ TwoDigits(t, n - 4) \in 0..59
       /\ DigitsValue(SubSeq(t, 1, n - 9)) = s \div 3600
       /\ TwoDigits(t, n - 7) = (s \div 60) % 60
       /\ TwoDigits(t, n - 4) = s % 60

\* C19: parseScormTime(formatScormTime(s)) = s for every whole s >= 0;
\* formatScormTime yields HHHH:MM:SS.00 with minutes and seconds in 00..59
\* (the hours field grows beyond four digits from 10000 hours on);
\* parseScormTime drops fractional seconds; 3661 formats as 0001:01:01.00
\* and 0001:01:01.50 parses to 3661.
C19_ScormTimeRoundTrip ==
    /\ (call = "formatScormTime" /\ ret # <<>>) =>
          /\ IsScormTimeOf(ret[1], arg)
          /\ arg < 36000000 => Len(ret[1]) = 13
          /\ arg = 3661 =>
                ret[1] = <<"0", "0", "0", "1", ":", "0", "1", ":", "0", "1", ".", "0", "0">>
          /\ Len(ret) = 2 => ret[2] = arg
    /\ (call = "parseScormTime" /\ ret # <<>> /\ arg = Time010101) => ret[1] = 3661

C19_Witness ==
    /\ call = "formatScormTime"
    /\ arg = 3661
    /\ Len(ret) = 2
    /\ ret[1] = <<"0", "0", "0", "1", ":", "0", "1", ":", "0", "1", ".", "0", "0">>
    /\ ret[2] = 3661

\* C18: in every state the width shown by the progress bar is
\* min(totalSeconds / EXPECTED_DURATION, 1) * 100 percent, with
\* EXPECTED_DURATION = expected_duration * 60, hence within 0..100; 1800 of
\* 3600 seconds show 50 and 7200 of 3600 seconds show 100.
C18_ProgressBound ==
    LET shown == display.progress
        duration == expected_duration * 60
        claimed == IF totalSeconds >= duration
                   THEN <<100, 1>> ELSE <<totalSeconds * 100, duration>>
    IN /\ shown[2] > 0
       /\ shown[1] * claimed[2] = claimed[1] * shown[2]
       /\ 0 <= shown[1] /\ shown[1] <= 100 * shown[2]
       /\ (duration = 3600 /\ totalSeconds = 1800) => shown[1] = 50 * shown[2]
       /\ (duration = 3600 /\ totalSeconds = 7200) => shown[1] = 100 * shown[2]

C18_Witness ==
    /\ phase = "ready"
    /\ expected_duration = 5
    /\ sessionSeconds = 6
    /\ totalSeconds = 301
    /\ display.progress = <<100, 1>>

\* C20: when the status shown is not Completed and the learner declines,
\* exitCourse changes nothing and calls nothing on the LMS; otherwise it
\* leaves the timer paused, the course window closed if it was open and the
\* shim not Initialized, and, where the shim was Initialized, the LMS holds
\* the current time, written before the single LMSFinish that ends the calls.
C20_ExitCourse ==
    (Interactive /\ courseOpened) =>
        \A confirmed, closed \in BOOLEAN :
            LET w == exitCourse(World, confirmed, closed)
                n == Len(w.calls)
            IN IF statusValue # "Completed" /\ ~confirmed
               THEN w.calls = <<>> /\ SameState(w)
               ELSE /\ ~w.isTimerRunning
                    /\ w.activeIntervals = 0
                    /\ courseWindow = "open" => w.courseWindow = "closed"
                    /\ ~w.isInitialized
                    /\ ~isInitialized => w.calls = <<>>
                    /\ isInitialized =>
                          /\ TimeCommitted(w)
                          /\ w.calls[n] = <<"LMSFinish", "", <<>> >>
                          /\ \A i \in 1..(n - 1) : w.calls[i][1] # "LMSFinish"
                          /\ \E i \in 1..(n - 1) :
                                w.calls[i] = <<"LMSSetValue", "cmi.core.session_time",
                                               formatScormTime(sessionSeconds)>>
                          /\ \E i \in 1..(n - 1) :
                                w.calls[i] = <<"LMSSetValue", "cmi.suspend_data",
                                               JSONstringify(totalSeconds)>>

C20_Witness ==
    /\ phase = "ready"
    /\ lmsState = "finished"
    /\ finishCalls = 1
    /\ ~isInitialized
    /\ ~isTimerRunning
    /\ courseWindow = "closed"
    /\ statusValue = "In Progress"
    /\ sessionSeconds = 7
    /\ LmsSessionSeconds = 7

\* the status shown agrees with the lesson status the LMS holds
Mirrored ==
    /\ statusValue = "Completed" => Status = Text("completed")
    /\ statusValue = "In Progress" => Status = Text("incomplete")

C21_StaysCompleted == statusValue = "Completed" => statusValue' = "Completed"

\* C21 (as claimed): once the status shown is Completed no learner action
\* or event changes it, and while the shim is Initialized the status shown
\* is the one the LMS lesson-status field holds.
C21_StatusOnlyForward == [](isInitialized => Mirrored) /\ [][C21_StaysCompleted]_vars

C22_NoCountingStep ==
    statusValue = "Completed" =>
        sessionSeconds' = sessionSeconds /\ totalSeconds' = totalSeconds

\* C22 (as claimed): whenever the status shown is Completed the timer is
\* not running, and no step taken then increases sessionSeconds or
\* totalSeconds.
C22_CompletedNotRunning ==
    [](statusValue = "Completed" => ~isTimerRunning) /\ [][C22_NoCountingStep]_vars

\* C23: a visibility change starts the timer exactly when the tab is now
\* visible, the course-opened panel shows and the timer is not running;
\* then only the timer changes; in every other case nothing changes, so a
\* running timer is never paused.
C23_VisibilityResume ==
    Interactive =>
        \A hidden \in BOOLEAN :
            LET w == visibilitychange(World, hidden)
            IN IF ~hidden /\ courseOpened /\ ~isTimerRunning
               THEN /\ w.isTimerRunning
                    /\ w.activeIntervals = activeIntervals + 1
                    /\ w.timerIndicator = "timer-active"
                    /\ [w EXCEPT !.isTimerRunning = isTimerRunning,
                                 !.activeIntervals = activeIntervals,
                                 !.timerInterval = timerInterval,
                                 !.timerIndicator = timerIndicator] = World
               ELSE w = World

C23_Witness ==
    /\ phase = "ready"
    /\ courseOpened
    /\ statusCompleted
    /\ statusValue = "Completed"
    /\ isTimerRunning
    /\ timerIndicator = "timer-active"
    /\ sessionSeconds = 3

C25_NoDowngradeStep ==
    Status \in {Text("completed"), Text("passed")} => Status' # Text("incomplete")

\* C25 (as claimed): once the LMS holds lesson_status completed or passed,
\* no step of the package writes incomplete over it.
C25_CompletionNeverDowngraded == [][C25_NoDowngradeStep]_vars

C26_NoDecreaseStep == SuspendTotal(lms') >= SuspendTotal(lms)

\* C26 (as claimed): no step of the package leaves in cmi.suspend_data a
\* totalTime smaller than the one the LMS held before the step.
C26_TotalTimeNeverDecreases == [][C26_NoDecreaseStep]_vars

\* C27: at most one interval is active, isTimerRunning holds exactly when
\* one is, and a callback of the interval adds exactly 1 to sessionSeconds
\* and to totalSeconds.
C27_SingleInterval ==
    /\ activeIntervals \in {0, 1}
    /\ isTimerRunning <=> activeIntervals = 1
    /\ isTimerRunning <=> timerInterval = "live"
    /\ (phase = "ready" /\ activeIntervals > 0) =>
          /\ tick(World).sessionSeconds = sessionSeconds + 1
          /\ tick(World).totalSeconds = totalSeconds + 1

C27_Witness ==
    /\ phase = "ready"
    /\ statusValue = "In Progress"
    /\ courseWindow = "open"
    /\ isTimerRunning
    /\ activeIntervals = 1
    /\ sessionSeconds = 12
    /\ totalSeconds = 62

RECURSIVE Ancestor(_, _)
\* the window h parent hops above win (the hops are made in two halves)
Ancestor(win, h) ==
    IF h = 0 THEN win
    ELSE IF h = 1 THEN windows.parent[win]
    ELSE LET mid == Ancestor(win, h \div 2)
         IN IF mid \in DOMAIN windows.parent THEN Ancestor(mid, h - (h \div 2)) ELSE mid

\* the ascent from win may end after h hops: an API object is found, the
\* window is its own parent, or 500 hops are made
EndsAfter(win, h) ==
    LET a == Ancestor(win, h)
    IN a \in windows.api \/ windows.parent[a] = a \/ h = 500

\* the window where the ascent from win stops
Stop(win) ==
    Ancestor(win, CHOOSE h \in 0..500 :
                      EndsAfter(win, h) /\ \A g \in 0..(h - 1) : ~EndsAfter(win, g))

RECURSIVE Nearest(_)
\* the API object the search from win reaches: that of the nearest ancestor
\* within 500 hops, else what the search from the opener of the window where
\* the ascent stopped reaches, else null
Nearest(win) ==
    IF Stop(win) \in windows.api THEN Stop(win)
    ELSE IF windows.opener[Stop(win)] = Null THEN Null
    ELSE Nearest(windows.opener[Stop(win)])

C24_Found ==
    /\ call = "findAPI"
    /\ locals.attempts \in 0..500
    /\ ret # <<>> =>
          /\ ret[1] = Nearest(0)
          /\ Cardinality(DOMAIN windows.parent) < maxAttempts => ret[1] = findAPI(0)
          /\ ret[1] = Null \/ ret[1] \in windows.api

====
